---- MODULE Spec2Model ----
(***************************************************************************)
(* Model of src/main.py: the two-stage resolver fetch_image_urls and the   *)
(* download manager download_image / download_images.                      *)
(*                                                                         *)
(* The upstream site is the environment: every page load, API call and     *)
(* image GET draws its outcome from a small set.  Payload entries are      *)
(* records describing what the nested lookup images -> orig -> url finds.  *)
(***************************************************************************)
EXTENDS Integers, Sequences, FiniteSets, TLC

\* ---------------------------------------------------------------- bounds
MaxLimit == 2          \* largest value of limit
MaxNegLimit == 2       \* limit ranges down to -MaxNegLimit
MaxEntries == 3        \* longest payload (pins / results) of a stage
NumUrls == 2           \* distinct image URLs the site can report
MaxUrls == 3           \* longest URL list handed to download_images
MaxRetriesBound == 3   \* largest max_retries
MaxBackoff == 2        \* largest backoff_factor
MaxNegRetries == 1     \* max_retries ranges down to -MaxNegRetries

\* ------------------------------------------------------- payload entries
\* What pin.get("images", {}) / .get("orig", {}) / .get("url") can meet:
\* the key absent, a value that is not a mapping (None, a string, a list),
\* or a mapping.  url = 0 is an absent or empty url, 1..NumUrls a real one.
Urls == 1..NumUrls

NoUrl == 0

Entries ==
    {[shape |-> "other", images |-> "absent", orig |-> "absent", url |-> NoUrl]}
    \cup {[shape |-> "mapping", images |-> i, orig |-> "absent", url |-> NoUrl] :
             i \in {"absent", "nonmap"}}
    \cup {[shape |-> "mapping", images |-> "map", orig |-> o, url |-> NoUrl] :
             o \in {"absent", "nonmap"}}
    \cup {[shape |-> "mapping", images |-> "map", orig |-> "map", url |-> u] :
             u \in {NoUrl} \cup Urls}

\* Sequences over S of length 0..n.
SeqUpTo(S, n) == UNION {[1..k -> S] : k \in 0..n}

\* pin.get("images", {}).get("orig", {}).get("url") raises AttributeError
\* when the entry, images or orig is not a mapping.
EntryRaises(e) ==
    \/ e.shape # "mapping"
    \/ e.images = "nonmap"
    \/ e.images = "map" /\ e.orig = "nonmap"

\* The value of the lookup chain when it does not raise (the {} defaults
\* make an absent level yield None, here NoUrl).
EntryUrl(e) ==
    IF e.images = "map" /\ e.orig = "map" THEN e.url ELSE NoUrl

\* `if image_url:` / `if u:`
Truthy(u) == u # NoUrl

\* Python's urls[:limit], negative limit included.
Slice(s, n) ==
    IF n >= 0
    THEN SubSeq(s, 1, IF n < Len(s) THEN n ELSE Len(s))
    ELSE SubSeq(s, 1, IF Len(s) + n > 0 THEN Len(s) + n ELSE 0)

\* `if len(urls) >= limit: break`
LimitReached(acc, lim) == Len(acc) >= lim

\* Walk that drops a url it has already collected.
RECURSIVE WalkDedup(_, _, _)
WalkDedup(es, acc, lim) ==
    IF es = <<>> THEN [urls |-> acc, raised |-> FALSE]
    ELSE IF EntryRaises(Head(es)) THEN [urls |-> acc, raised |-> TRUE]
    ELSE IF Truthy(EntryUrl(Head(es)))
            /\ \A i \in 1..Len(acc) : acc[i] # EntryUrl(Head(es))
         THEN LET acc2 == Append(acc, EntryUrl(Head(es)))
              IN  IF LimitReached(acc2, lim)
                  THEN [urls |-> acc2, raised |-> FALSE]
                  ELSE WalkDedup(Tail(es), acc2, lim)
         ELSE WalkDedup(Tail(es), acc, lim)

\* The for loop over the entries of a payload: appends each truthy url,
\* breaks when the limit is reached, stops with raised = TRUE at the first
\* entry whose lookup raises.
RECURSIVE Walk(_, _, _)
Walk(es, acc, lim) ==
    IF es = <<>> THEN [urls |-> acc, raised |-> FALSE]
    ELSE IF EntryRaises(Head(es)) THEN [urls |-> acc, raised |-> TRUE]
    ELSE IF Truthy(EntryUrl(Head(es)))
         THEN LET acc2 == Append(acc, EntryUrl(Head(es)))
              IN  IF LimitReached(acc2, lim)
                  THEN [urls |-> acc2, raised |-> FALSE]
                  ELSE Walk(Tail(es), acc2, lim)
         ELSE Walk(Tail(es), acc, lim)

\* StageReturn with the limit never applied: every truthy url that the
\* walk meets is returned.
StageReturnNoLimit(es, acc, lim) == Walk(es, acc, Len(acc) + Len(es) + 1).urls

\* What a stage returns for the payload es when its walk does not raise:
\* the loop of lines 110-119 / 154-159 followed by `return urls[:limit]`.
StageReturn(es, acc, lim) == Slice(Walk(es, acc, lim).urls, lim)

\* ------------------------------------------------------------------ state
VARIABLES
    pc,            \* position of the program
    HTMLSession,   \* TRUE iff requests_html could be imported
    limit,         \* fetch_image_urls: limit
    urls,          \* fetch_image_urls: urls
    payload,       \* entries of the payload the last stage walked
    primaryUrls,   \* urls as the primary stage left it
    stage,         \* stage whose return statement was taken (0: none yet)
    pageCalls,     \* html_sess.get calls issued
    apiCalls,      \* session.get(api_url) calls issued
    result,        \* value returned by fetch_image_urls
    entry,         \* function the run starts in: main or download_images
    dlUrls,        \* download_images: urls
    max_retries,   \* download_images / download_image: max_retries
    backoff_factor,\* download_images / download_image: backoff_factor
    idx,           \* download_images: idx (0 before the first URL)
    count,         \* download_images: count
    attempt,       \* download_image: attempt
    resp,          \* download_image: outcome of the last session.get
    ok,            \* value returned by the last download_image call
    log,           \* GETs, sleeps and writes of the current download_image call
    outcomes,      \* how each download_image call of this run ended
    files,         \* output_dir: content of image_<i>.jpg (0: no such file)
    writes,        \* files written since download_images was entered
    run,           \* which call of download_images on output_dir this is
    prevFiles,     \* output_dir as it was when this call was entered
    exitCode,      \* value returned by main
    session        \* create_session: total_retries and backoff_factor

fetchVars == <<HTMLSession, limit, urls, payload, primaryUrls, stage,
               pageCalls, apiCalls, result>>

dlVars == <<dlUrls, max_retries, backoff_factor, idx, count, attempt, resp,
            ok, log, outcomes, files, writes, run, prevFiles>>

vars == <<pc, entry, fetchVars, dlVars, exitCode, session>>

Limits == (0 - MaxNegLimit)..MaxLimit

Payloads == SeqUpTo(Entries, MaxEntries)

\* Outcomes of the primary stage before the walk: html_sess.get fails,
\* render fails, the script element is missing or empty, json.loads fails,
\* the parsed document has no mapping at initialReduxState.pins, or pins
\* is a mapping whose values are walked.
PrimaryOutcomes == {"get_failed", "render_failed", "no_script", "bad_json",
                    "bad_shape", "pins"}

\* Outcomes of the fallback call: session.get raises, raise_for_status
\* raises, r.json() fails with a RequestException subclass (requests >=
\* 2.27) or with a plain ValueError (older requests), the decoded payload
\* has no mappings / list on the path resource_response.data.results, or
\* results is a list that is walked.
ApiOutcomes == {"transport", "non_2xx", "bad_json_requests", "bad_json_value",
                "bad_shape", "results"}

\* Outcomes of session.get(url) inside download_image: a status code, or a
\* requests.RequestException (connection failure, timeout).
GetOutcomes == {"200", "403", "429", "404", "500", "RequestException"}

\* Retryable widened to a permanent status, and to transport errors.
RetryableWith404 == {"403", "429", "404"}

RetryableWithTransport == {"403", "429", "RequestException"}

\* Line 192: `resp.status_code in {403, 429}`
Retryable == {"403", "429"}

\* Defaults of --retries and --backoff, the session-level settings.
DefaultTotalRetries == 5

DefaultSessionBackoff == 1

\* The session-level settings a run is given: the defaults, or transport
\* retries switched off.
SessionSettings ==
    {[total_retries |-> DefaultTotalRetries,
      backoff_factor |-> DefaultSessionBackoff],
     [total_retries |-> 0, backoff_factor |-> 0]}

\* main handing the session-level --retries on to download_images.
MainMaxRetriesFromSession == session.total_retries

\* main calls download_images with max_retries=3, backoff_factor=1.0.
MainMaxRetries == 3

MainBackoff == 1

\* Positions a URL list can have, hence the names image_<i>.jpg.
FileIdx == 1..(IF MaxUrls > MaxLimit THEN MaxUrls ELSE MaxLimit)

NoFiles == [i \in FileIdx |-> NoUrl]

\* The URL lists a direct caller of download_images hands over: one list
\* of each length, cycling through the URLs (a URL may occur twice).  The
\* lists main hands over are whatever fetch_image_urls returned.
UrlLists == {[i \in 1..k |-> ((i - 1) % NumUrls) + 1] : k \in 0..MaxUrls}

\* A run starts either in main (which calls fetch_image_urls and then
\* download_images on its result) or in download_images called directly
\* with a URL list, max_retries and backoff_factor of the caller's choice.
Init ==
    /\ entry \in {"main", "download_images"}
    /\ pc = IF entry = "main" THEN "fetch" ELSE "dl_start"
    /\ session \in SessionSettings
    /\ (entry = "download_images") =>
          session.total_retries = DefaultTotalRetries
    /\ HTMLSession \in BOOLEAN
    /\ limit \in Limits
    /\ (entry = "download_images") => (HTMLSession /\ limit = 0)
    /\ urls = <<>>
    /\ payload = <<>>
    /\ primaryUrls = <<>>
    /\ stage = 0
    /\ pageCalls = 0
    /\ apiCalls = 0
    /\ result = <<>>
    /\ dlUrls \in UrlLists
    /\ max_retries \in (0 - MaxNegRetries)..MaxRetriesBound
    /\ backoff_factor \in 0..MaxBackoff
    /\ (entry = "main") =>
          (dlUrls = <<>> /\ max_retries = MainMaxRetries
                        /\ backoff_factor = MainBackoff)
    /\ idx = 0
    /\ count = 0
    /\ attempt = 0
    /\ resp = "none"
    /\ ok = FALSE
    /\ log = <<>>
    /\ outcomes = <<>>
    /\ files = NoFiles
    /\ writes = 0
    /\ run = 1
    /\ prevFiles = NoFiles
    /\ exitCode = 0

\* ------------------------------------------------------- fetch_image_urls
\* Lines 95-125: the primary stage.  Every exception is swallowed by one of
\* the two except clauses; urls keeps what was appended before it.
PrimaryStage ==
    /\ pc = "fetch"
    /\ HTMLSession
    /\ \E o \in PrimaryOutcomes, p \in Payloads :
          /\ (o # "pins") => p = <<>>
          /\ payload' = p
          /\ urls' = Walk(p, urls, limit).urls
          /\ primaryUrls' = Walk(p, urls, limit).urls
    /\ pageCalls' = pageCalls + 1
    /\ pc' = "after_primary"
    /\ UNCHANGED <<HTMLSession, limit, stage, apiCalls, result>>
    /\ UNCHANGED <<entry, dlVars, exitCode, session>>

\* Line 95 false: requests_html is absent, the primary stage is skipped.
SkipPrimary ==
    /\ pc = "fetch"
    /\ ~HTMLSession
    /\ pc' = "fallback"
    /\ UNCHANGED <<entry, fetchVars, dlVars, exitCode, session>>

\* PrimaryFound with the test dropped in either direction.
PrimaryFoundNever(u) == FALSE

PrimaryFoundAlways(u) == TRUE

\* Line 127: `if urls:`
PrimaryFound(u) == u # <<>>

\* Lines 127-129.
PrimaryReturn ==
    /\ pc = "after_primary"
    /\ PrimaryFound(urls)
    /\ result' = StageReturn(payload, <<>>, limit)
    /\ stage' = 1
    /\ pc' = "fetch_returned"
    /\ UNCHANGED <<HTMLSession, limit, urls, payload, primaryUrls,
                   pageCalls, apiCalls>>
    /\ UNCHANGED <<entry, dlVars, exitCode, session>>

PrimaryEmpty ==
    /\ pc = "after_primary"
    /\ ~PrimaryFound(urls)
    /\ pc' = "fallback"
    /\ payload' = <<>>
    /\ UNCHANGED <<HTMLSession, limit, urls, primaryUrls, stage,
                   pageCalls, apiCalls, result>>
    /\ UNCHANGED <<entry, dlVars, exitCode, session>>

\* The fallback call propagates an exception: `except RequestException` on
\* line 160 catches the transport, status and requests-JSON errors only,
\* not a ValueError from r.json() nor the AttributeError / TypeError of
\* the .get chain on the payload or of the walk.
ApiRaises(o, p) ==
    \/ o \in {"bad_json_value", "bad_shape"}
    \/ o = "results" /\ Walk(p, <<>>, limit).raised

\* Lines 132-165: the fallback stage.
Fallback ==
    /\ pc = "fallback"
    /\ apiCalls' = apiCalls + 1
    /\ \E o \in ApiOutcomes, p \in Payloads :
          /\ (o # "results") => p = <<>>
          /\ payload' = p
          /\ urls' = Walk(p, urls, limit).urls
          /\ IF ApiRaises(o, p)
             THEN /\ pc' = "fetch_raised"
                  /\ UNCHANGED <<result, stage>>
             ELSE /\ pc' = "fetch_returned"
                  /\ result' = StageReturn(p, urls, limit)
                  /\ stage' = 2
    /\ UNCHANGED <<HTMLSession, limit, primaryUrls, pageCalls>>
    /\ UNCHANGED <<entry, dlVars, exitCode, session>>

\* ------------------------------------------------------------------- main
\* Lines 273-276: fetch_image_urls returned nothing, main returns 2.
MainNoUrls ==
    /\ pc = "fetch_returned"
    /\ result = <<>>
    /\ exitCode' = 2
    /\ pc' = "exit"
    /\ UNCHANGED <<entry, fetchVars, dlVars, session>>

\* Lines 278-280: main hands the resolved list to download_images.  The
\* locals of fetch_image_urls other than its return value are gone.
MainDownload ==
    /\ pc = "fetch_returned"
    /\ result # <<>>
    /\ dlUrls' = result
    /\ max_retries' = MainMaxRetries
    /\ backoff_factor' = MainBackoff
    /\ urls' = <<>>
    /\ payload' = <<>>
    /\ pc' = "dl_start"
    /\ UNCHANGED <<entry, HTMLSession, limit, primaryUrls, stage, pageCalls,
                   apiCalls, result, idx, count, attempt, resp, ok, log,
                   outcomes, files, writes, run, prevFiles, exitCode,
                   session>>

\* Lines 281-282.
MainExit ==
    /\ pc = "dl_returned"
    /\ entry = "main"
    /\ exitCode' = IF count > 0 THEN 0 ELSE 1
    /\ pc' = "exit"
    /\ UNCHANGED <<entry, fetchVars, dlVars, session>>

\* -------------------------------------------------------- download_images
\* Lines 218-219: makedirs, count = 0.
DownloadImagesStart ==
    /\ pc = "dl_start"
    /\ count' = 0
    /\ idx' = 0
    /\ writes' = 0
    /\ outcomes' = <<>>
    /\ pc' = "dl_loop"
    /\ UNCHANGED <<entry, fetchVars, dlUrls, max_retries, backoff_factor,
                   attempt, resp, ok, log, files, run, prevFiles, exitCode,
                   session>>

\* MoreUrls running one position past the end of the list.
MoreUrlsInclusive(i, us) == i <= Len(us)

\* Line 220: `for idx, url in enumerate(urls, start=1)` has another URL
\* after position i.
MoreUrls(i, us) == i < Len(us)

\* Lines 220-222: the next URL of the list, download_image is entered.
NextUrl ==
    /\ pc = "dl_loop"
    /\ MoreUrls(idx, dlUrls)
    /\ idx' = idx + 1
    /\ attempt' = 0
    /\ resp' = "none"
    /\ log' = <<>>
    /\ pc' = "attempt"
    /\ UNCHANGED <<entry, fetchVars, dlUrls, max_retries, backoff_factor,
                   count, ok, outcomes, files, writes, run, prevFiles,
                   exitCode, session>>

\* Line 226: the list is exhausted, download_images returns count.
DownloadImagesReturn ==
    /\ pc = "dl_loop"
    /\ ~MoreUrls(idx, dlUrls)
    /\ pc' = "dl_returned"
    /\ UNCHANGED <<entry, fetchVars, dlVars, exitCode, session>>

\* --------------------------------------------------------- download_image
\* Backoff with the exponent off by one.
BackoffOffByOne(bf, a) == bf * (2 ^ (a + 1))

\* Line 193: backoff = backoff_factor * (2 ** attempt)
Backoff(bf, a) == bf * (2 ^ a)

\* HasAttempt as `while True`: refusals are retried without end.
HasAttemptAlways(a, m) == TRUE

\* HasAttempt allowing one attempt too many.
HasAttemptInclusive(a, m) == a <= m

\* Line 179: `for attempt in range(max_retries)` has another iteration.
HasAttempt(a, m) == a < m

\* Events of a download_image call, in program order: session.get on a
\* given attempt with its outcome, time.sleep, the write of dest_path.
Get(a, o) == [ev |-> "get", arg |-> a, status |-> o]

Sleep(d) == [ev |-> "sleep", arg |-> d, status |-> "none"]

WriteFile(i) == [ev |-> "write", arg |-> i, status |-> "none"]

\* IsOk taking a 404 answer for a success as well.
IsOkOr404(o) == o \in {"200", "404"}

\* Line 186: `if resp.status_code == 200`
IsOk(o) == o = "200"

\* Written in append mode: the body is added to what the file held.
WrittenAppend(old, body) == old + body

\* Lines 187-188: open(dest_path, "wb") and write: the file holds the body
\* of the response, whatever it held before.
Written(old, body) == body

\* Lines 180-190: the GET answers 200, the body is written to dest_path and
\* download_image returns True.
AttemptOk ==
    /\ pc = "attempt"
    /\ HasAttempt(attempt, max_retries)
    /\ \E o \in GetOutcomes \ {"RequestException"} :
          /\ IsOk(o)
          /\ resp' = o
          /\ log' = log \o <<Get(attempt, o), WriteFile(idx)>>
    /\ files' = [files EXCEPT ![idx] = Written(files[idx], dlUrls[idx])]
    /\ writes' = writes + 1
    /\ ok' = TRUE
    /\ outcomes' = Append(outcomes, "ok")
    /\ pc' = "image_done"
    /\ UNCHANGED <<entry, fetchVars, dlUrls, max_retries, backoff_factor,
                   idx, count, attempt, run, prevFiles, exitCode, session>>

\* Lines 180-181, 192-201: the GET answers 403 or 429, download_image
\* sleeps and continues with the next attempt.
AttemptRetry ==
    /\ pc = "attempt"
    /\ HasAttempt(attempt, max_retries)
    /\ \E o \in Retryable :
          /\ resp' = o
          /\ log' = log \o <<Get(attempt, o),
                              Sleep(Backoff(backoff_factor, attempt))>>
    /\ attempt' = attempt + 1
    /\ UNCHANGED <<pc, entry, fetchVars, dlUrls, max_retries, backoff_factor,
                   idx, count, ok, outcomes, files, writes, run, prevFiles,
                   exitCode, session>>

\* Lines 180-184, 203-207: the GET raises a RequestException or answers
\* any other status; the loop is left and download_image returns False.
AttemptAbort ==
    /\ pc = "attempt"
    /\ HasAttempt(attempt, max_retries)
    /\ \E o \in GetOutcomes \ Retryable :
          /\ o = "RequestException" \/ ~IsOk(o)
          /\ resp' = o
          /\ log' = Append(log, Get(attempt, o))
    /\ ok' = FALSE
    /\ outcomes' = Append(outcomes, "aborted")
    /\ pc' = "image_done"
    /\ UNCHANGED <<entry, fetchVars, dlUrls, max_retries, backoff_factor,
                   idx, count, attempt, files, writes, run, prevFiles,
                   exitCode, session>>

\* Lines 179, 206-207: range(max_retries) is exhausted.
AttemptsExhausted ==
    /\ pc = "attempt"
    /\ ~HasAttempt(attempt, max_retries)
    /\ ok' = FALSE
    /\ outcomes' = Append(outcomes, "exhausted")
    /\ pc' = "image_done"
    /\ UNCHANGED <<entry, fetchVars, dlUrls, max_retries, backoff_factor,
                   idx, count, attempt, resp, log, files, writes, run,
                   prevFiles, exitCode, session>>

\* CountAfter counting every URL, whatever download_image returned.
CountAfterAlways(c, success) == c + 1

\* Lines 222-225: `if download_image(...): count += 1`
CountAfter(c, success) == IF success THEN c + 1 ELSE c

ImageDone ==
    /\ pc = "image_done"
    /\ count' = CountAfter(count, ok)
    /\ pc' = "dl_loop"
    /\ UNCHANGED <<entry, fetchVars, dlUrls, max_retries, backoff_factor,
                   idx, attempt, resp, ok, log, outcomes, files, writes,
                   run, prevFiles, exitCode, session>>

\* The caller of download_images calls it once more with the same
\* arguments on the directory the first call left behind.
Rerun ==
    /\ pc = "dl_returned"
    /\ entry = "download_images"
    /\ run = 1
    /\ run' = 2
    /\ prevFiles' = files
    /\ attempt' = 0
    /\ resp' = "none"
    /\ ok' = FALSE
    /\ log' = <<>>
    /\ pc' = "dl_start"
    /\ UNCHANGED <<entry, fetchVars, dlUrls, max_retries, backoff_factor,
                   idx, count, outcomes, files, writes, exitCode,
                   session>>

Next ==
    \/ PrimaryStage
    \/ SkipPrimary
    \/ PrimaryReturn
    \/ PrimaryEmpty
    \/ Fallback
    \/ MainNoUrls
    \/ MainDownload
    \/ MainExit
    \/ DownloadImagesStart
    \/ NextUrl
    \/ DownloadImagesReturn
    \/ AttemptOk
    \/ AttemptRetry
    \/ AttemptAbort
    \/ AttemptsExhausted
    \/ ImageDone
    \/ Rerun

Spec == Init /\ [][Next]_vars

\* ================================================================ claims
\* Helpers of the properties below.
FetchDone == pc \in {"fetch_returned", "fetch_raised"}

InDownloadImage == pc \in {"attempt", "image_done"}

IsPrefix(s, t) == Len(s) <= Len(t) /\ SubSeq(t, 1, Len(s)) = s

\* An entry that carries a url at images.orig.url.
WellFormed(e) ==
    /\ e.shape = "mapping"
    /\ e.images = "map"
    /\ e.orig = "map"
    /\ e.url \in Urls

\* The urls of the well-formed entries of a payload, in payload order.
RECURSIVE WellFormedUrls(_)
WellFormedUrls(es) ==
    IF es = <<>> THEN <<>>
    ELSE IF WellFormed(Head(es))
         THEN <<Head(es).url>> \o WellFormedUrls(Tail(es))
         ELSE WellFormedUrls(Tail(es))

FirstN(s, n) == SubSeq(s, 1, IF n < Len(s) THEN n ELSE Len(s))

\* The outcomes of the GETs of the current download_image call, in order.
GetEvents == SelectSeq(log, LAMBDA e : e.ev = "get")

SleepEvents == SelectSeq(log, LAMBDA e : e.ev = "sleep")

WriteEvents == SelectSeq(log, LAMBDA e : e.ev = "write")

\* C1: with limit <= 0, fetch_image_urls returns an empty list, never
\* raises and never issues the fallback API request.
C1_NonPositiveLimitNoFallback ==
    (entry = "main" /\ limit <= 0) =>
        /\ apiCalls = 0
        /\ pc # "fetch_raised"
        /\ (pc = "fetch_returned" => result = <<>>)

\* C2: fetch_image_urls never raises, whatever either stage meets, and it
\* returns an empty list when neither stage produced a URL.
C2_FetchNeverRaises ==
    /\ pc # "fetch_raised"
    /\ (pc = "fetch_returned" /\ urls = <<>>) => result = <<>>

\* C3: for limit > 0 the list fetch_image_urls returns has at most limit
\* elements, however many entries the stage's payload holds.
C3_LengthAtMostLimit ==
    (pc = "fetch_returned" /\ limit > 0) => Len(result) <= limit

\* C3 witness: a payload with more well-formed entries than limit was
\* walked and exactly limit urls came back.
C3_Witness ==
    /\ pc = "fetch_returned"
    /\ limit > 0
    /\ Len(WellFormedUrls(payload)) > limit
    /\ Len(result) = limit

\* C4: when the primary stage yields a non-empty list, the fallback request
\* is never issued and the returned list is made of the primary stage's
\* urls (all of them, in order, when limit > 0).
C4_PrimaryShortCircuits ==
    (primaryUrls # <<>>) =>
        /\ apiCalls = 0
        /\ pc # "fallback"
        /\ (stage # 0 =>
              /\ stage = 1
              /\ IsPrefix(result, primaryUrls)
              /\ (limit > 0 => result = primaryUrls))

\* C4 witness: the primary stage found two urls and they were returned
\* without any API call.
C4_Witness ==
    /\ pc = "fetch_returned"
    /\ stage = 1
    /\ Len(primaryUrls) = 2
    /\ result = primaryUrls
    /\ pageCalls = 1
    /\ apiCalls = 0

\* C5: when the primary stage yields an empty list (failure, nothing to
\* extract, or requests_html absent so that no page is requested), the
\* fallback request is issued exactly once by the time fetch_image_urls
\* ends, and never more than once.
C5_FallbackExactlyOnce ==
    /\ apiCalls <= 1
    /\ (FetchDone /\ primaryUrls = <<>>) => apiCalls = 1
    /\ (FetchDone /\ ~HTMLSession) => pageCalls = 0

\* C5 witness: requests_html is absent, no page was requested and the
\* fallback call was made once.
C5_Witness ==
    /\ FetchDone
    /\ ~HTMLSession
    /\ primaryUrls = <<>>
    /\ pageCalls = 0
    /\ apiCalls = 1

\* C6: in both stages an entry with a missing or malformed images.orig.url
\* (a non-mapping at images or orig included) is skipped silently: the list
\* returned is the first limit urls of the well-formed entries of the
\* payload of the stage that answered, in payload order.
C6_MalformedEntriesSkipped ==
    (FetchDone /\ limit > 0 /\ payload # <<>>) =>
        /\ pc = "fetch_returned"
        /\ result = FirstN(WellFormedUrls(payload), limit)

\* The log of a download_image call that met k retryable answers with the
\* statuses st[1..k] and then a 200: GET, sleep bf * 2^i, ..., GET, write.
RECURSIVE RetryLog(_, _, _)
RetryLog(st, i, bf) ==
    IF i > Len(st) THEN <<>>
    ELSE IF st[i] = "200"
         THEN <<Get(i - 1, "200"), WriteFile(idx)>>
         ELSE <<Get(i - 1, st[i]), Sleep(bf * (2 ^ (i - 1)))>>
                  \o RetryLog(st, i + 1, bf)

GetStatuses == [i \in 1..Len(GetEvents) |-> GetEvents[i].status]

\* C7: a URL that answers 403/429 on its first k attempts and 200 on attempt
\* k+1 (k < max_retries) makes download_image return success after exactly
\* k+1 GETs, with one write and k sleeps, the i-th of backoff_factor * 2^i,
\* each right after the i-th refused GET and before the next GET.
C7_RetryThenSuccess ==
    (InDownloadImage /\ GetEvents # <<>>
       /\ GetEvents[Len(GetEvents)].status = "200") =>
        LET k == Len(GetEvents) - 1
        IN  /\ k < max_retries
            /\ \A i \in 1..k : GetEvents[i].status \in {"403", "429"}
            /\ pc = "image_done"
            /\ ok
            /\ Len(SleepEvents) = k
            /\ Len(WriteEvents) = 1
            /\ log = RetryLog(GetStatuses, 1, backoff_factor)
            /\ files[idx] = dlUrls[idx]

\* C7 witness: 429, 429, 200 with backoff_factor = 1: sleeps of 1 and 2
\* before attempts 2 and 3, success on the third attempt.
C7_Witness ==
    /\ pc = "image_done"
    /\ ok
    /\ backoff_factor = 1
    /\ log = <<Get(0, "429"), Sleep(1), Get(1, "429"), Sleep(2),
               Get(2, "200"), WriteFile(idx)>>

\* C8: a status other than 200, 403 and 429 ends download_image at once:
\* that GET is the last event of the call (no further GET, no sleep), no
\* file is written, failure is returned; as the first response it leaves
\* the URL with exactly one attempt.
C8_PermanentStatusAborts ==
    \A i \in 1..Len(log) :
        (InDownloadImage /\ log[i].ev = "get"
           /\ log[i].status \in {"404", "500"}) =>
            /\ i = Len(log)
            /\ pc = "image_done"
            /\ ~ok
            /\ WriteEvents = <<>>
            /\ files[idx] = prevFiles[idx]
            /\ (i = 1 => Len(GetEvents) = 1 /\ SleepEvents = <<>>)

\* C8 witness: a 404 on the first attempt, with retries left.
C8_Witness ==
    /\ pc = "image_done"
    /\ max_retries = MaxRetriesBound
    /\ log = <<Get(0, "404")>>
    /\ ~ok

\* C9: a transport-level error on a GET ends download_image at once: no
\* further GET, no sleep and no write follow it, failure is returned,
\* however many attempts remain.
C9_TransportErrorAborts ==
    \A i \in 1..Len(log) :
        (InDownloadImage /\ log[i].ev = "get"
           /\ log[i].status = "RequestException") =>
            /\ i = Len(log)
            /\ pc = "image_done"
            /\ ~ok
            /\ WriteEvents = <<>>
            /\ files[idx] = prevFiles[idx]
            /\ Len(SleepEvents) = Len(GetEvents) - 1

\* C9 witness: a transport error on the second attempt of three.
C9_Witness ==
    /\ pc = "image_done"
    /\ max_retries = 3
    /\ Len(log) = 3
    /\ log[3] = Get(1, "RequestException")
    /\ ~ok

\* C10: download_images returns a count equal to the number of URLs whose
\* download obtained a 200 and to the number of files written in the call.
C10_CountIsSuccesses ==
    (pc = "dl_returned") =>
        /\ Len(outcomes) = Len(dlUrls)
        /\ count = Cardinality({i \in 1..Len(outcomes) : outcomes[i] = "ok"})
        /\ count = writes
        /\ count = Cardinality({i \in FileIdx : files[i] # prevFiles[i]})
                  + Cardinality({i \in 1..Len(dlUrls) :
                        outcomes[i] = "ok" /\ prevFiles[i] = dlUrls[i]})
        /\ \A i \in 1..Len(dlUrls) :
              files[i] = IF outcomes[i] = "ok" THEN dlUrls[i] ELSE prevFiles[i]

\* C10 witness: [A(200), B(403/429 three times), C(200)] with max_retries =
\* 3 gives count 2 and exactly two files.
C10_Witness ==
    /\ pc = "dl_returned"
    /\ run = 1
    /\ Len(dlUrls) = 3
    /\ max_retries = 3
    /\ outcomes = <<"ok", "exhausted", "ok">>
    /\ count = 2
    /\ writes = 2
    /\ files[1] # NoUrl /\ files[2] = NoUrl /\ files[3] # NoUrl

\* C12: main returns 0 iff a download succeeded, 2 iff resolution yielded no
\* candidate, 1 iff it yielded candidates and no download succeeded, and
\* every run of main returns one of the three.
C12_ExitCodes ==
    (entry = "main") =>
        /\ pc # "fetch_raised"
        /\ (pc = "exit") =>
              /\ exitCode \in {0, 1, 2}
              /\ (exitCode = 2) <=> (result = <<>>)
              /\ (exitCode = 0) <=> (result # <<>> /\ count > 0)
              /\ (exitCode = 1) <=> (result # <<>> /\ count = 0)

\* The payload the primary stage walked is still in payload.
PrimaryPayloadKept ==
    pc = "after_primary" \/ (pc = "fetch_returned" /\ stage = 1)

\* The urls a walk of es discovers: those of the entries before the first
\* one whose lookup raises, in order, duplicates kept.
RECURSIVE Discovered(_)
Discovered(es) ==
    IF es = <<>> THEN <<>>
    ELSE IF EntryRaises(Head(es)) THEN <<>>
    ELSE IF WellFormed(Head(es))
         THEN <<Head(es).url>> \o Discovered(Tail(es))
         ELSE Discovered(Tail(es))

\* Some entry of es makes the lookup raise before lim urls were found.
RECURSIVE WalkFails(_, _)
WalkFails(es, lim) ==
    /\ es # <<>>
    /\ \/ EntryRaises(Head(es))
       \/ IF WellFormed(Head(es))
          THEN lim > 1 /\ WalkFails(Tail(es), lim - 1)
          ELSE WalkFails(Tail(es), lim)

\* C13: a failure anywhere in the primary stage, also after some pins were
\* extracted, is not raised, leaves the primary stage without results and
\* sends the resolver on to the fallback request.
C13_PrimaryFailureFallsBack ==
    (PrimaryPayloadKept /\ WalkFails(payload, limit)) =>
        /\ primaryUrls = <<>>
        /\ stage # 1

\* C14: the list returned comes from exactly one stage: stage 1's urls when
\* it found any, otherwise stage 2's; it holds that stage's urls in
\* discovery order, duplicates included, cut to limit.
C14_OneStageInOrder ==
    (pc = "fetch_returned") =>
        /\ stage \in {1, 2}
        /\ (stage = 1) <=> (primaryUrls # <<>>)
        /\ (stage = 1) => apiCalls = 0
        /\ (stage = 2) => apiCalls = 1
        /\ result = IF limit > 0 THEN FirstN(Discovered(payload), limit)
                                 ELSE <<>>

\* C14 witness: the answering stage reported the same url twice and both
\* copies were returned.
C14_Witness ==
    /\ pc = "fetch_returned"
    /\ stage = 2
    /\ pageCalls = 1
    /\ Len(result) = 2
    /\ result[1] = result[2]

\* C15: a URL refused (403/429) on every attempt gets exactly max_retries
\* GETs (max_retries being a number of attempts, >= 0) and then failure;
\* the failure stays with that URL: every later URL
\* is attempted, starting at attempt 0 with a first sleep of
\* backoff_factor * 1.
C15_ExhaustionIsLocal ==
    /\ (InDownloadImage /\ max_retries >= 0
          /\ \A i \in 1..Len(GetEvents) :
                GetEvents[i].status \in {"403", "429"}) =>
          /\ Len(GetEvents) = attempt
          /\ (pc = "image_done") =>
                /\ Len(GetEvents) = max_retries
                /\ ~ok
                /\ outcomes[idx] = "exhausted"
    /\ (InDownloadImage /\ log # <<>>) =>
          /\ log[1].ev = "get" /\ log[1].arg = 0
          /\ (Len(log) > 1 /\ log[2].ev = "sleep") =>
                log[2].arg = backoff_factor
    /\ (pc = "dl_returned") => Len(outcomes) = Len(dlUrls)

\* C15 witness: the first URL was refused max_retries times; the second is
\* on its first attempt and sleeps backoff_factor.
C15_Witness ==
    /\ pc = "attempt"
    /\ idx = 2
    /\ max_retries = 3
    /\ backoff_factor = 2
    /\ outcomes = <<"exhausted">>
    /\ log = <<Get(0, "403"), Sleep(2)>>

\* C16: every backoff sleep of download_image is followed by a further GET
\* on the same URL: a call never ends on a sleep.
C16_SleepThenGet ==
    (pc = "image_done" /\ log # <<>>) => log[Len(log)].ev # "sleep"

\* C17: download_images is sequential and in list order: the GETs of the
\* URL at position i+1 start only when the URLs 1..i have their final
\* outcome, the positions are visited one by one, and the events of a call
\* are its own attempts 0, 1, 2, ... in order.
C17_SequentialInOrder ==
    /\ idx \in 0..Len(dlUrls)
    /\ (pc = "attempt") => Len(outcomes) = idx - 1
    /\ (pc \in {"image_done", "dl_loop", "dl_returned"}) =>
          Len(outcomes) = idx
    /\ (pc = "dl_returned") => idx = Len(dlUrls)
    /\ InDownloadImage =>
          /\ \A i \in 1..Len(GetEvents) : GetEvents[i].arg = i - 1
          /\ \A i \in 1..Len(WriteEvents) : WriteEvents[i].arg = idx

\* C17 witness: the third URL is being fetched after the first two ended,
\* one of them after backoff sleeps.
C17_Witness ==
    /\ pc = "attempt"
    /\ idx = 3
    /\ outcomes = <<"exhausted", "ok">>
    /\ Len(GetEvents) = 1

\* The second call met the same answers as the first: the URLs that got a
\* 200 are those whose file the first call left behind.
SameResponses ==
    /\ Len(outcomes) = Len(dlUrls)
    /\ \A i \in 1..Len(dlUrls) :
          (outcomes[i] = "ok") <=> (prevFiles[i] # NoUrl)

\* C11: a second call of download_images on the same directory with the
\* same list and the same responses leaves the directory as the first call
\* left it; the URL at position i only ever goes to image_<i>.jpg, so no
\* further file names appear.
C11_RerunIdempotent ==
    /\ \A i \in FileIdx :
          files[i] \in (IF i <= Len(dlUrls) THEN {NoUrl, dlUrls[i]}
                                            ELSE {NoUrl})
    /\ (run = 2 /\ pc = "dl_returned" /\ SameResponses) => files = prevFiles

\* C11 witness: the second call is over, it rewrote a file of the first
\* call, left a failed position without a file, and the directory is as
\* before.
C11_Witness ==
    /\ run = 2
    /\ pc = "dl_returned"
    /\ SameResponses
    /\ Len(dlUrls) = 3
    /\ outcomes = <<"ok", "exhausted", "ok">>
    /\ writes = 2
    /\ files = prevFiles

\* A step that changes output_dir is the write of a 200 answer: it puts
\* the body of the current URL at the current position and nothing else.
OnlyOkWrites ==
    (files' # files) =>
        /\ pc = "attempt"
        /\ resp' = "200"
        /\ ok'
        /\ files' = [files EXCEPT ![idx] = dlUrls[idx]]

\* C19: a download_image call that does not end in success leaves its
\* destination as it was (no file created, an earlier file keeps its
\* content); only a 200 answer changes a file, and it writes the body.
C19_FailureLeavesFile ==
    /\ []((InDownloadImage /\ ~(pc = "image_done" /\ ok)) =>
            \A i \in FileIdx : i >= idx => files[i] = prevFiles[i])
    /\ [][OnlyOkWrites]_vars

\* C19 witness: in a second call a download fails at a position where the
\* first call had left a file; the file is still there.
C19_Witness ==
    /\ run = 2
    /\ pc = "image_done"
    /\ ~ok
    /\ prevFiles[idx] # NoUrl
    /\ files[idx] = prevFiles[idx]

\* What a download_image call of main logs for the answers st[i..]: a
\* write after a 200, a sleep of 1 * 2^attempt after a 403/429, nothing
\* after any other answer.  It depends on the answers alone.
RECURSIVE PolicyLog(_, _)
PolicyLog(st, i) ==
    IF i > Len(st) THEN <<>>
    ELSE IF st[i] = "200" THEN <<Get(i - 1, "200"), WriteFile(idx)>>
    ELSE IF st[i] \in {"403", "429"}
         THEN <<Get(i - 1, st[i]), Sleep(2 ^ (i - 1))>> \o PolicyLog(st, i + 1)
         ELSE <<Get(i - 1, st[i])>>

InDownloadImages == pc \in {"dl_loop", "attempt", "image_done", "dl_returned"}

\* C18: the download-level retry policy does not depend on the
\* session-level settings: in every run of main, whatever --retries and
\* --backoff are, download_images runs with max_retries 3 and
\* backoff_factor 1, so the attempts and sleeps of a URL are determined by
\* the answers the download layer meets.
C18_DownloadPolicyIndependent ==
    (entry = "main" /\ InDownloadImages) =>
        /\ max_retries = 3
        /\ backoff_factor = 1
        /\ InDownloadImage =>
              /\ Len(GetEvents) <= 3
              /\ log = PolicyLog(GetStatuses, 1)

\* C18 witness: with the session's transport retries switched off a URL of
\* main is still refused three times, with sleeps of 1, 2 and 4.
C18_Witness ==
    /\ entry = "main"
    /\ session.total_retries = 0
    /\ session.backoff_factor = 0
    /\ pc = "image_done"
    /\ log = <<Get(0, "429"), Sleep(1), Get(1, "403"), Sleep(2),
               Get(2, "429"), Sleep(4)>>

\* The attempts max_retries allows: none when it is zero or negative.
Allowed == IF max_retries > 0 THEN max_retries ELSE 0

\* An upper bound of the GETs download_images has left to issue: it starts
\* at n * max_retries for a list of n URLs.
GetsLeft ==
    (Len(dlUrls) - idx) * Allowed
      + (IF pc = "attempt" THEN Allowed - attempt ELSE 0)

\* An upper bound of the steps download_images has left.
StepsLeft ==
    (Len(dlUrls) - idx) * (Allowed + 3)
      + (CASE pc = "attempt" -> (Allowed - attempt) + 2
           [] pc = "image_done" -> 1
           [] OTHER -> 0)

\* C20: download_image issues at most max_retries GETs to its URL and then
\* returns, none at all when max_retries <= 0; download_images over n URLs
\* therefore ends, after at most n * max_retries GETs: every step inside it
\* lowers a bound on the steps left, and every GET lowers a budget of GETs
\* that starts at n * max_retries and never goes below zero.
C20_BoundedAttempts ==
    /\ [](InDownloadImage =>
            /\ Len(GetEvents) <= Allowed
            /\ attempt <= Allowed
            /\ (Allowed = 0 /\ pc = "image_done") => (log = <<>> /\ ~ok))
    /\ []((pc = "dl_loop" /\ idx = 0) => GetsLeft = Len(dlUrls) * Allowed)
    /\ [][(pc \in {"dl_loop", "attempt", "image_done"}) =>
            /\ StepsLeft >= 0
            /\ pc' = "dl_returned" \/ StepsLeft' < StepsLeft
            /\ GetsLeft >= 0
            /\ GetsLeft' <= GetsLeft
            /\ (Len(log') > Len(log)) =>
                  /\ Len(SelectSeq(log', LAMBDA e : e.ev = "get"))
                        = Len(GetEvents) + 1
                  /\ GetsLeft' < GetsLeft]_vars

\* C20 witness: max_retries is negative, the call of download_image ended
\* without a GET and failed; and the list had two more URLs to go.
C20_Witness ==
    /\ pc = "image_done"
    /\ max_retries < 0
    /\ Len(dlUrls) = 3
    /\ idx = 1
    /\ log = <<>>
    /\ ~ok

====
